---- MODULE Spec2Model ----
(***************************************************************************)
(* The authenticated API client and session lifecycle of the M-Hike mobile *)
(* client: the AsyncStorage session store, the axios request and response  *)
(* interceptors, the sign-in and logout handlers, the startup auth check   *)
(* and the JWT expiry inspection.                                          *)
(*                                                                         *)
(* Every `await` of the source is a step boundary: the event loop may run  *)
(* another task's continuation between two awaits of one handler.  An      *)
(* AsyncStorage call either takes effect or rejects with a storage error;  *)
(* which of the two happens is the environment's choice.                   *)
(***************************************************************************)
EXTENDS Integers, Sequences, FiniteSets, TLC

(***************************************************************************)
(* Bounds of the model.                                                    *)
(***************************************************************************)
\* API calls that may be in flight at once, besides the sign-in call.
NumReq == 2
\* The wall clock at startup is one of 10 s, 20 s, ..., MaxTime * 10 s.
MaxTime == 3
\* Token strings of up to MaxLen characters are fed to the expiry check.
MaxLen == 5
\* Hikes have the ids 1..MaxHikes; getUserObservations is given up to
\* MaxHikes of them.
MaxHikes == 2

(***************************************************************************)
(* JavaScript values.  `null` is the empty sequence and a present value v  *)
(* is <<v>>, so that a key of the store, a header or an optional field is  *)
(* either NULL or Some(v).                                                 *)
(***************************************************************************)
NULL == <<>>
Some(v) == <<v>>

Undefined == [t |-> "undefined"]
Str(s) == [t |-> "string", s |-> s]
Num(n) == [t |-> "number", n |-> n]
Obj(f) == [t |-> "object", f |-> f]
Arr(a) == [t |-> "array", a |-> a]
EmptyObj == Obj(<<>>)

JsNull == [t |-> "null"]

\* JavaScript truthiness of a value (undefined, null, "" and 0 are falsy).
Truthy(v) ==
    CASE v.t = "undefined" -> FALSE
      [] v.t = "null" -> FALSE
      [] v.t = "string" -> v.s # ""
      [] v.t = "number" -> v.n # 0
      [] OTHER -> TRUE

\* v.k for an object v: the field's value, or undefined.
HasField(v, k) == v.t = "object" /\ k \in DOMAIN v.f
Field(v, k) == IF HasField(v, k) THEN v.f[k] ELSE Undefined

(***************************************************************************)
(* JWT strings.  A string is a sequence of characters; the characters that *)
(* matter here are the dot and a few base64 chunks, each standing for the  *)
(* run of characters it spells.                                            *)
(***************************************************************************)
Dot == "."
ChunkSig == "c2ln"                        \* atob -> sig
ChunkExp20 == "eyJleHAiOjIwfQ"            \* atob -> {"exp":20}
ChunkExp30 == "eyJleHAiOjMwfQ"            \* atob -> {"exp":30}
ChunkEmptyObj == "e30"                    \* atob -> {}
ChunkExpText == "eyJleHAiOiJzb29uIn0"     \* atob -> {"exp":"soon"}
ChunkUrlOnly == "e-_"                     \* not in the base64 alphabet

\* token.split("."): the segments between the dots; "" splits into [""].
RECURSIVE SplitFrom(_, _, _)
SplitFrom(s, i, cur) ==
    IF i > Len(s) THEN <<cur>>
    ELSE IF s[i] = Dot THEN <<cur>> \o SplitFrom(s, i + 1, <<>>)
    ELSE SplitFrom(s, i + 1, Append(cur, s[i]))
Split(s) == SplitFrom(s, 1, <<>>)

\* atob(segment) of base-64: the decoded text, or NULL when it throws on a
\* character outside the base64 alphabet.  A run of several chunks decodes
\* to the texts run together.
ChunkText(c) ==
    CASE c = ChunkSig -> "sig"
      [] c = ChunkExp20 -> "{\"exp\":20}"
      [] c = ChunkExp30 -> "{\"exp\":30}"
      [] c = ChunkEmptyObj -> "{}"
      [] c = ChunkExpText -> "{\"exp\":\"soon\"}"
Atob(seg) ==
    IF \E i \in 1..Len(seg) : seg[i] = ChunkUrlOnly THEN NULL
    ELSE Some([i \in 1..Len(seg) |-> ChunkText(seg[i])])

\* JSON.parse(text): the value, or NULL when it throws a SyntaxError.  Only
\* a text that is exactly one JSON document parses; the empty text and two
\* documents run together do not.
JSONParse(texts) ==
    IF Len(texts) # 1 THEN NULL
    ELSE CASE texts[1] = "{\"exp\":20}" -> Some(Obj([exp |-> Num(20)]))
           [] texts[1] = "{\"exp\":30}" -> Some(Obj([exp |-> Num(30)]))
           [] texts[1] = "{}" -> Some(EmptyObj)
           [] texts[1] = "{\"exp\":\"soon\"}" -> Some(Obj([exp |-> Str("soon")]))
           [] OTHER -> NULL

\* How a call or a try block completes: it returns a value, or it throws.
Return(v) == [type |-> "return", value |-> v]
Throw == [type |-> "throw"]

\* The try block of decodeToken: null for a string that has not three
\* segments, the parsed payload, or the error atob or JSON.parse throws.
decodeTokenTry(token) ==
    LET parts == Split(token) IN
    IF Len(parts) # 3 THEN Return(JsNull)
    ELSE LET text == Atob(parts[2]) IN
         IF text = NULL THEN Throw
         ELSE LET payload == JSONParse(text[1]) IN
              IF payload = NULL THEN Throw ELSE Return(payload[1])

\* decodeToken without the test parts.length !== 3: the second segment of
\* any string that has one is decoded.
decodeTokenAnyLength(token) ==
    LET parts == Split(token) IN
    IF Len(parts) < 2 THEN JsNull
    ELSE LET text == Atob(parts[2]) IN
         IF text = NULL THEN JsNull
         ELSE LET payload == JSONParse(text[1]) IN
              IF payload = NULL THEN JsNull ELSE payload[1]

\* decodeToken(token): the payload, or null (JsNull) for a string that has
\* not three segments or whose second segment does not decode to JSON.
decodeToken(token) ==
    LET done == decodeTokenTry(token) IN
    IF done.type = "throw" THEN JsNull ELSE done.value

\* exp < currentTime with currentTime = nowMs / 1000: a number compares by
\* value; a text that is no numeral converts to NaN and compares false.
ExpBefore(exp, nowMs) ==
    IF exp.t = "number" THEN exp.n * 1000 < nowMs ELSE FALSE

\* The try block of isTokenExpired at wall-clock time nowMs (Date.now()).
isTokenExpiredTry(token, nowMs) ==
    LET payload == decodeToken(token) IN
    IF ~Truthy(payload) \/ ~Truthy(Field(payload, "exp")) THEN Return(TRUE)
    ELSE Return(ExpBefore(Field(payload, "exp"), nowMs))

\* isTokenExpired with neither catch: what atob or JSON.parse throws while
\* decoding leaves the function.
isTokenExpiredUncaught(token, nowMs) ==
    LET decoded == decodeTokenTry(token) IN
    IF decoded.type = "throw" THEN Throw
    ELSE IF ~Truthy(decoded.value) \/ ~Truthy(Field(decoded.value, "exp"))
         THEN Return(TRUE)
    ELSE Return(ExpBefore(Field(decoded.value, "exp"), nowMs))

\* How the call isTokenExpired(token) completes: the catch turns an error of
\* the try block into the answer true.
isTokenExpiredCall(token, nowMs) ==
    LET done == isTokenExpiredTry(token, nowMs) IN
    IF done.type = "throw" THEN Return(TRUE) ELSE done

\* isTokenExpired(token): the boolean it returns.
isTokenExpired(token, nowMs) == isTokenExpiredCall(token, nowMs).value

\* `Bearer ${token}`
Bearer(token) == <<"Bearer ">> \o token

\* The JWTs the backend issues in this model, and the user each belongs to.
TokenA == <<ChunkSig, Dot, ChunkExp20, Dot, ChunkSig>>
TokenB == <<ChunkSig, Dot, ChunkExp30, Dot, ChunkSig>>
Tokens == {TokenA, TokenB}
UserOf(token) ==
    IF token = TokenA THEN Obj([id |-> Num(1), username |-> Str("alice")])
    ELSE Obj([id |-> Num(2), username |-> Str("bob")])

\* JSON.stringify(user) and JSON.parse of a stored user string.
Stringify(v) == [json |-> v]
ParseStored(s) == s.json

(***************************************************************************)
(* Failures handed to the response interceptor.  An AxiosError carries the *)
(* response (status and body) when the backend answered, a code and a      *)
(* message.                                                                *)
(***************************************************************************)
ErrorBody(msg) == Obj([error |-> Str(msg)])
FieldError(field, msg) == Obj([field |-> Str(field), msg |-> Str(msg)])
ValidationBody == Obj([errors |-> Arr(<<FieldError("email", "invalid")>>)])

\* Bodies a backend (or a proxy in front of it) answers a failed call with:
\* none, an empty one, a text, and objects with and without the error fields.
Bodies ==
    { Undefined, Str(""), Str("Bad Gateway"), EmptyObj,
      Obj([message |-> Str("Internal Server Error")]),
      ErrorBody("Invalid credentials"), ValidationBody }

Statuses == {400, 401, 500}

StatusMessage(status) ==
    CASE status = 400 -> "Request failed with status code 400"
      [] status = 401 -> "Request failed with status code 401"
      [] status = 500 -> "Request failed with status code 500"

\* The backend answered with an error status.
HttpError(status, data) ==
    [ response |-> Some([status |-> status, data |-> data]),
      code |-> Some(IF status < 500 THEN "ERR_BAD_REQUEST" ELSE "ERR_BAD_RESPONSE"),
      message |-> StatusMessage(status) ]

\* No answer within the configured timeout of 10000 ms.
TimeoutError ==
    [ response |-> NULL, code |-> Some("ECONNABORTED"),
      message |-> "timeout of 10000ms exceeded" ]

\* The connection could not be made.
NetworkError ==
    [ response |-> NULL, code |-> Some("ERR_NETWORK"), message |-> "Network Error" ]

\* An error thrown before the request left, with or without a message.
ThrownError(message) == [ response |-> NULL, code |-> NULL, message |-> message ]

AxiosErrors ==
    { HttpError(st, d) : st \in Statuses, d \in Bodies }
    \cup { TimeoutError, NetworkError,
           ThrownError("Converting circular structure to JSON"), ThrownError("") }

\* The 401 test taking every 4xx status for an authorization failure.
IsClientError(error) ==
    error.response # NULL /\ error.response[1].status \in 400..499

\* error.response?.status === 401
IsUnauthorized(error) ==
    error.response # NULL /\ error.response[1].status = 401

\* error.response?.data
ResponseData(error) ==
    IF error.response = NULL THEN Undefined ELSE error.response[1].data

\* Normalize with the message rule lost: a failure that has a message and is
\* neither a timeout nor "Network Error" gets the fallback text.
NormalizeNoMessageRule(error) ==
    IF Truthy(ResponseData(error)) THEN ResponseData(error)
    ELSE IF error.code = Some("ECONNABORTED")
         THEN ErrorBody("Request timeout. Please try again.")
    ELSE IF error.message = "Network Error"
         THEN ErrorBody("Network error. Please check your connection.")
    ELSE ErrorBody("An unexpected error occurred")

\* Normalize rejecting with the bare message text instead of {error: message}.
NormalizeBareMessage(error) ==
    IF Truthy(ResponseData(error)) THEN ResponseData(error)
    ELSE IF error.code = Some("ECONNABORTED")
         THEN ErrorBody("Request timeout. Please try again.")
    ELSE IF error.message = "Network Error"
         THEN ErrorBody("Network error. Please check your connection.")
    ELSE IF error.message # "" THEN Str(error.message)
    ELSE ErrorBody("An unexpected error occurred")

\* Normalize wrapping the backend's body into {error: <axios message>}.
NormalizeRewrapped(error) ==
    IF Truthy(ResponseData(error)) THEN ErrorBody(error.message)
    ELSE IF error.code = Some("ECONNABORTED")
         THEN ErrorBody("Request timeout. Please try again.")
    ELSE IF error.message = "Network Error"
         THEN ErrorBody("Network error. Please check your connection.")
    ELSE IF error.message # "" THEN ErrorBody(error.message)
    ELSE ErrorBody("An unexpected error occurred")

\* Normalize without the ECONNABORTED rule.
NormalizeNoTimeoutRule(error) ==
    IF Truthy(ResponseData(error)) THEN ResponseData(error)
    ELSE IF error.message = "Network Error"
         THEN ErrorBody("Network error. Please check your connection.")
    ELSE IF error.message # "" THEN ErrorBody(error.message)
    ELSE ErrorBody("An unexpected error occurred")

\* Normalize without the "Network Error" rule.
NormalizeNoNetworkRule(error) ==
    IF Truthy(ResponseData(error)) THEN ResponseData(error)
    ELSE IF error.code = Some("ECONNABORTED")
         THEN ErrorBody("Request timeout. Please try again.")
    ELSE IF error.message # "" THEN ErrorBody(error.message)
    ELSE ErrorBody("An unexpected error occurred")

\* The value the response interceptor rejects with.
Normalize(error) ==
    IF Truthy(ResponseData(error)) THEN ResponseData(error)
    ELSE IF error.code = Some("ECONNABORTED")
         THEN ErrorBody("Request timeout. Please try again.")
    ELSE IF error.message = "Network Error"
         THEN ErrorBody("Network error. Please check your connection.")
    ELSE IF error.message # "" THEN ErrorBody(error.message)
    ELSE ErrorBody("An unexpected error occurred")

(***************************************************************************)
(* State.                                                                  *)
(***************************************************************************)
VARIABLES
    storage,      \* AsyncStorage: the "authToken" and "user" keys, NULL or Some(string)
    pc,           \* where each call through the client stands
    hdr,          \* config.headers.Authorization of each call until it settles: NULL or Some(header)
    err,          \* the AxiosError the response interceptor handles for each call
    result,       \* the value each call was rejected with
    caught,       \* the interceptor's catch branch ran for the call (a storage error was logged)
    raced,        \* a sign-in stored a token between the call's two 401 removals
    resp,         \* response.data of the sign-in call: NULL or Some([token, user])
    session,      \* the token the last sign-in was answered with, until a logout or a 401 is handled
    screen,       \* the route shown: "index", "auth" or "tabs"
    loading,      \* the sign-in screen's loading flag
    errors,       \* the sign-in screen's field errors
    logoutPc,     \* where the confirmed logout stands
    isAuth,       \* Index: NULL until checkAuth decided, then Some(TRUE) or Some(FALSE)
    authChecked,  \* Index: the splash screen is hidden and the redirect renders
    checkAuthPc,  \* Index.checkAuth: "getAuthToken", "hideAsync", "returned" or "threw"
    nowMs,        \* Date.now() at startup
    tok,          \* the string handed to isTokenExpired on its own
    expired,      \* NULL, or Some(what isTokenExpired returned for tok)
    raised,       \* isTokenExpired(tok) threw instead of returning
    op,           \* the last call of a session store function: NULL or Some(how it went)
    sinceClear,   \* clearAuthData since the last set: "none", "failed" (all threw) or "done"
    sent,         \* the request config a domain function handed over and what left the request pipeline
    call          \* the domain function that is running: NULL or Some(its progress)

vars ==
    << storage, pc, hdr, err, result, caught, raced, resp, errors, session,
       screen, loading, logoutPc, isAuth, authChecked, checkAuthPc, nowMs, tok, expired,
       raised, op, sinceClear, sent, call >>

\* Call 0 is the sign-in screen's login call; calls 1..NumReq are API calls.
LoginReq == 0
Req == 0..NumReq
ApiReq == 1..NumReq

Times == { 10000 * k : k \in 1..MaxTime }

EmptyStorage == [authToken |-> NULL, user |-> NULL]
SessionOf(token) ==
    [authToken |-> Some(token), user |-> Some(Stringify(UserOf(token)))]

\* The failures the backend and the network answer the calls of the session
\* model with; the response pipeline on its own is run on all of AxiosErrors.
SessionErrors ==
    { HttpError(401, ErrorBody("Invalid credentials")), NetworkError }

storeVars == << storage >>
reqVars == << pc, hdr, err, result, caught, raced >>
signInVars == << resp, loading, errors >>
startVars == << isAuth, authChecked, checkAuthPc, nowMs >>
tokenVars == << tok, expired, raised >>
callVars == << op, sinceClear, sent, call >>

\* The state the application starts in: the store holds what an earlier run
\* left (nothing, or a session), the Index route shows, no call is in flight.
InitApp ==
    /\ storage \in {EmptyStorage} \cup { SessionOf(t) : t \in Tokens }
    /\ pc = [r \in Req |-> "idle"]
    /\ hdr = [r \in Req |-> NULL]
    /\ err = [r \in Req |-> NULL]
    /\ result = [r \in Req |-> NULL]
    /\ caught = [r \in Req |-> FALSE]
    /\ raced = [r \in Req |-> FALSE]
    /\ resp = NULL
    /\ session = NULL
    /\ screen = "index"
    /\ loading = FALSE
    /\ errors = <<>>
    /\ logoutPc = "idle"
    /\ isAuth = NULL
    /\ authChecked = FALSE
    /\ checkAuthPc = "getAuthToken"
    /\ op = NULL
    /\ sinceClear = "none"
    /\ sent = NULL
    /\ call = NULL

\* The session model starts at a clock reading at which TokenA (exp 20) has
\* expired and TokenB (exp 30) has not.
SessionStartMs == 30 * 1000

Init ==
    /\ InitApp
    /\ nowMs = SessionStartMs
    /\ tok = <<>>
    /\ expired = NULL
    /\ raised = FALSE

(***************************************************************************)
(* Startup: Index.checkAuth.                                               *)
(***************************************************************************)
\* getAuthToken(): the stored token, or null when the read fails.
getAuthToken(ok) == IF ok THEN storage.authToken ELSE NULL

\* `token && ...`: a stored string is truthy unless it is empty.
TokenTruthy(token) == token # NULL /\ token[1] # <<>>

\* checkAuth up to its finally block: read the token and decide.
CheckAuth ==
    /\ screen = "index"
    /\ checkAuthPc = "getAuthToken"
    /\ \E ok \in BOOLEAN :
         LET token == getAuthToken(ok) IN
         isAuth' = Some(TokenTruthy(token) /\ ~isTokenExpired(token[1], nowMs))
    /\ checkAuthPc' = "hideAsync"
    /\ UNCHANGED << storage, reqVars, signInVars, session, screen, logoutPc,
                    authChecked, nowMs, tokenVars, callVars >>

\* The finally block: await SplashScreen.hideAsync(), then authChecked is
\* set.  When hideAsync rejects, checkAuth throws out of the finally block
\* before it sets authChecked.
HideSplash ==
    /\ screen = "index"
    /\ checkAuthPc = "hideAsync"
    /\ \E ok \in BOOLEAN :
         IF ok
         THEN authChecked' = TRUE /\ checkAuthPc' = "returned"
         ELSE checkAuthPc' = "threw" /\ UNCHANGED authChecked
    /\ UNCHANGED << storage, reqVars, signInVars, session, screen, logoutPc,
                    isAuth, nowMs, tokenVars, callVars >>

\* The render after the check: <Redirect> to the tabs or to the auth route.
\* Index is unmounted and its state is gone.
Redirect ==
    /\ screen = "index"
    /\ authChecked
    /\ isAuth # NULL
    /\ screen' = IF isAuth[1] THEN "tabs" ELSE "auth"
    /\ isAuth' = NULL
    /\ authChecked' = FALSE
    /\ UNCHANGED << storage, reqVars, signInVars, session, logoutPc, checkAuthPc,
                    nowMs, tokenVars, callVars >>

(***************************************************************************)
(* The request interceptor.                                                *)
(***************************************************************************)
\* The header set to the bare token, without the Bearer scheme.
AuthorizationHeaderBare(token) == Some(token)

\* config.headers.Authorization = `Bearer ${token}`
AuthorizationHeader(token) == Some(Bearer(token))

\* The interceptor rethrowing a failed read: the call is rejected before
\* it is sent.
RequestInterceptorAborting(r, ok) ==
    /\ hdr' = [hdr EXCEPT ![r] =
                 IF ok /\ TokenTruthy(storage.authToken)
                 THEN AuthorizationHeader(storage.authToken[1])
                 ELSE NULL]
    /\ caught' = [caught EXCEPT ![r] = ~ok]
    /\ pc' = [pc EXCEPT ![r] = IF ok THEN "inflight" ELSE "rejected"]

\* The interceptor on call r: ok tells whether AsyncStorage.getItem
\* answered; a read that throws is logged and the call goes out unchanged.
RequestInterceptor(r, ok) ==
    /\ hdr' = [hdr EXCEPT ![r] =
                 IF ok /\ TokenTruthy(storage.authToken)
                 THEN AuthorizationHeader(storage.authToken[1])
                 ELSE NULL]
    /\ caught' = [caught EXCEPT ![r] = ~ok]
    /\ pc' = [pc EXCEPT ![r] = "inflight"]

\* The request configs the domain functions hand to the client: a method,
\* a path, a body (the FormData of the file-carrying calls), a query, and
\* the Content-Type, which is the instance default unless the call sets it.
Configs ==
    [ method : {"get", "post"},
      url : {"/hikes", "/hikes/1/observations"},
      data : {NULL, Some("FormData")},
      params : {NULL, Some("name=lake")},
      headers : [ ContentType : {"application/json", "multipart/form-data"},
                  Authorization : {NULL} ] ]

\* The interceptor also resetting the Content-Type to the instance default.
InterceptedConfigJson(config, ok) ==
    IF ok /\ TokenTruthy(storage.authToken)
    THEN [config EXCEPT !.headers =
              [ContentType |-> "application/json",
               Authorization |-> AuthorizationHeader(storage.authToken[1])]]
    ELSE config

\* The config the request interceptor returns for the config it was given.
InterceptedConfig(config, ok) ==
    IF ok /\ TokenTruthy(storage.authToken)
    THEN [config EXCEPT !.headers.Authorization =
              AuthorizationHeader(storage.authToken[1])]
    ELSE config

\* A domain function calls client.get/post/put/delete with its config on
\* slot r; what it handed over and what left the interceptor are kept.
ClientRequest(r, config) ==
    /\ r \in ApiReq
    /\ screen = "tabs"
    /\ pc[r] = "idle"
    /\ \E ok \in BOOLEAN :
         /\ RequestInterceptor(r, ok)
         /\ sent' = Some([before |-> config, after |-> InterceptedConfig(config, ok)])
    /\ UNCHANGED << storage, err, result, raced, signInVars, session, screen,
                    logoutPc, startVars, tokenVars, op, sinceClear, call >>

\* A screen of the tabs calls a domain function, which calls the client.
\* API calls take the lowest free slot (the slots are interchangeable).
CallApi(r) ==
    /\ r \in ApiReq
    /\ screen = "tabs"
    /\ pc[r] = "idle"
    /\ \A q \in ApiReq : q < r => pc[q] # "idle"
    /\ \E ok \in BOOLEAN : RequestInterceptor(r, ok)
    /\ UNCHANGED << storage, err, result, raced, signInVars, session, screen,
                    logoutPc, startVars, tokenVars, callVars >>

\* What the sign-in form holds: the texts of its two inputs.
Forms ==
    [ emailOrUsername : { <<>>, <<" ">>, <<"a">>, <<" ", "a">> },
      password : { <<>>, <<"p">> } ]
FilledForm == [emailOrUsername |-> <<"a">>, password |-> <<"p">>]

\* String.prototype.trim()
RECURSIVE Trim(_)
Trim(s) ==
    IF s = <<>> THEN s
    ELSE IF Head(s) = " " THEN Trim(Tail(s))
    ELSE IF s[Len(s)] = " " THEN Trim(SubSeq(s, 1, Len(s) - 1))
    ELSE s

\* handleSignIn with a submit control that is never disabled.
handleSignInAlwaysEnabled(form) ==
    /\ screen = "auth"
    /\ IF Trim(form.emailOrUsername) = <<>>
       THEN /\ errors' = <<FieldError("emailOrUsername", "Email or username is required")>>
            /\ UNCHANGED << pc, hdr, caught, loading >>
       ELSE IF form.password = <<>>
       THEN /\ errors' = <<FieldError("password", "Password is required")>>
            /\ UNCHANGED << pc, hdr, caught, loading >>
       ELSE /\ errors' = <<>>
            /\ loading' = TRUE
            /\ \E ok \in BOOLEAN : RequestInterceptor(LoginReq, ok)
    /\ UNCHANGED << storage, err, result, raced, resp, session, screen,
                    logoutPc, startVars, tokenVars, callVars >>

\* handleSignIn, run by a press of the Sign In button, which is disabled
\* while loading: clear the errors and set loading; a blank input sets its
\* field error, resets loading and returns; else loginUser is called.
handleSignIn(form) ==
    /\ screen = "auth"
    /\ ~loading
    /\ pc[LoginReq] = "idle"
    /\ IF Trim(form.emailOrUsername) = <<>>
       THEN /\ errors' = <<FieldError("emailOrUsername", "Email or username is required")>>
            /\ UNCHANGED << pc, hdr, caught, loading >>
       ELSE IF form.password = <<>>
       THEN /\ errors' = <<FieldError("password", "Password is required")>>
            /\ UNCHANGED << pc, hdr, caught, loading >>
       ELSE /\ errors' = <<>>
            /\ loading' = TRUE
            /\ \E ok \in BOOLEAN : RequestInterceptor(LoginReq, ok)
    /\ UNCHANGED << storage, err, result, raced, resp, session, screen,
                    logoutPc, startVars, tokenVars, callVars >>

(***************************************************************************)
(* The response interceptor.                                               *)
(***************************************************************************)
\* A successful response passes through; an API call is fulfilled.
ResponseOk(r) ==
    /\ r \in ApiReq
    /\ pc[r] = "inflight"
    /\ pc' = [pc EXCEPT ![r] = "fulfilled"]
    /\ hdr' = [hdr EXCEPT ![r] = NULL]
    /\ UNCHANGED << storage, err, result, caught, raced, signInVars,
                    session, screen, logoutPc, startVars, tokenVars, callVars >>

\* The handler returning the normalized value instead of rejecting with it:
\* the caller's promise is fulfilled.
RejectResolved(r, error) ==
    /\ pc' = [pc EXCEPT ![r] = "fulfilled"]
    /\ err' = [err EXCEPT ![r] = Some(error)]
    /\ result' = [result EXCEPT ![r] = Some(Normalize(error))]
    /\ raced' = [raced EXCEPT ![r] = FALSE]
    /\ hdr' = [hdr EXCEPT ![r] = NULL]
    /\ loading' = IF r = LoginReq THEN FALSE ELSE loading

\* Promise.reject(<normalized value>): call r settles as rejected.  The
\* rejection of the login call lands in handleSignIn's catch and finally.
Reject(r, error) ==
    /\ pc' = [pc EXCEPT ![r] = "rejected"]
    /\ err' = [err EXCEPT ![r] = Some(error)]
    /\ result' = [result EXCEPT ![r] = Some(Normalize(error))]
    /\ raced' = [raced EXCEPT ![r] = FALSE]
    /\ hdr' = [hdr EXCEPT ![r] = NULL]
    /\ loading' = IF r = LoginReq THEN FALSE ELSE loading

\* The error handler starts on call r: a 401 begins the session clear with
\* the first removeItem pending, any other failure is rejected at once.
ResponseError(r, error) ==
    /\ pc[r] = "inflight"
    /\ IF IsUnauthorized(error)
       THEN /\ pc' = [pc EXCEPT ![r] = "removeToken"]
            /\ err' = [err EXCEPT ![r] = Some(error)]
            /\ session' = NULL
            /\ UNCHANGED << hdr, result, raced, loading >>
       ELSE /\ Reject(r, error)
            /\ UNCHANGED session
    /\ caught' = [caught EXCEPT ![r] = FALSE]
    /\ UNCHANGED << storage, resp, errors, screen, logoutPc, startVars, tokenVars, callVars >>

\* The 401 branch removing a key that is not the token's: the token stays.
RemoveTokenKept(r) ==
    /\ pc[r] = "removeToken"
    /\ \E ok \in BOOLEAN :
         IF ok
         THEN /\ pc' = [pc EXCEPT ![r] = "removeUser"]
              /\ UNCHANGED << storage, hdr, err, result, caught, raced, loading >>
         ELSE /\ caught' = [caught EXCEPT ![r] = TRUE]
              /\ Reject(r, err[r][1])
              /\ UNCHANGED storage
    /\ session' = NULL
    /\ UNCHANGED << resp, errors, screen, logoutPc, startVars, tokenVars, callVars >>

\* The 401 branch without its try/catch: a removal that throws rejects the
\* call with the storage error.
RemoveTokenEscaping(r) ==
    /\ pc[r] = "removeToken"
    /\ \E ok \in BOOLEAN :
         IF ok
         THEN /\ storage' = [storage EXCEPT !.authToken = NULL]
              /\ pc' = [pc EXCEPT ![r] = "removeUser"]
              /\ UNCHANGED << hdr, err, result, caught, raced, loading >>
         ELSE /\ caught' = [caught EXCEPT ![r] = TRUE]
              /\ Reject(r, ThrownError("Failed to remove item"))
              /\ UNCHANGED storage
    /\ session' = NULL
    /\ UNCHANGED << resp, errors, screen, logoutPc, startVars, tokenVars, callVars >>

\* await AsyncStorage.removeItem("authToken") of the 401 branch.  When it
\* throws, the catch logs it and the handler goes on to reject.
RemoveToken(r) ==
    /\ pc[r] = "removeToken"
    /\ \E ok \in BOOLEAN :
         IF ok
         THEN /\ storage' = [storage EXCEPT !.authToken = NULL]
              /\ pc' = [pc EXCEPT ![r] = "removeUser"]
              /\ UNCHANGED << hdr, err, result, caught, raced, loading >>
         ELSE /\ caught' = [caught EXCEPT ![r] = TRUE]
              /\ Reject(r, err[r][1])
              /\ UNCHANGED storage
    /\ session' = NULL
    /\ UNCHANGED << resp, errors, screen, logoutPc, startVars, tokenVars, callVars >>

\* The 401 branch without its second removal: the user stays stored.
RemoveUserForgotten(r) ==
    /\ pc[r] = "removeUser"
    /\ caught' = [caught EXCEPT ![r] = FALSE]
    /\ Reject(r, err[r][1])
    /\ session' = NULL
    /\ UNCHANGED << storage, resp, errors, screen, logoutPc, startVars, tokenVars, callVars >>

\* await AsyncStorage.removeItem("user") of the 401 branch, then the
\* rejection with the normalized value.
RemoveUser(r) ==
    /\ pc[r] = "removeUser"
    /\ \E ok \in BOOLEAN :
         /\ storage' = IF ok THEN [storage EXCEPT !.user = NULL] ELSE storage
         /\ caught' = [caught EXCEPT ![r] = ~ok]
    /\ Reject(r, err[r][1])
    /\ session' = NULL
    /\ UNCHANGED << resp, errors, screen, logoutPc, startVars, tokenVars, callVars >>

\* The caller is done with the settled call; its slot is free again.
Reset(r) ==
    /\ pc[r] \in {"rejected", "fulfilled"}
    /\ pc' = [pc EXCEPT ![r] = "idle"]
    /\ hdr' = [hdr EXCEPT ![r] = NULL]
    /\ err' = [err EXCEPT ![r] = NULL]
    /\ result' = [result EXCEPT ![r] = NULL]
    /\ caught' = [caught EXCEPT ![r] = FALSE]
    /\ raced' = [raced EXCEPT ![r] = FALSE]
    /\ UNCHANGED << storage, signInVars, session, screen, logoutPc, startVars,
                    tokenVars, callVars >>

(***************************************************************************)
(* Sign-in: loginUser stores the session, then handleSignIn stores it      *)
(* again through the session store and navigates to the tabs.              *)
(***************************************************************************)
\* A token written by the sign-in lands between the two removals of every
\* 401 handler that has removed the token and not yet the user.
RacedBy(key) ==
    [q \in Req |-> raced[q] \/ (key = "authToken" /\ pc[q] = "removeUser")]

\* The login call is answered 200 with {message, user, token}.
LoginOk(t) ==
    /\ pc[LoginReq] = "inflight"
    /\ pc' = [pc EXCEPT ![LoginReq] = "storeToken"]
    /\ resp' = Some([token |-> t, user |-> UserOf(t)])
    /\ session' = Some(t)
    /\ hdr' = [hdr EXCEPT ![LoginReq] = NULL]
    /\ UNCHANGED << storage, err, result, caught, raced, loading, errors, screen,
                    logoutPc, startVars, tokenVars, callVars >>

\* A storage write of the sign-in threw: loginUser or the session store
\* rethrows, handleSignIn's catch alerts and its finally resets loading.
SignInFailed ==
    /\ pc' = [pc EXCEPT ![LoginReq] = "idle"]
    /\ caught' = [caught EXCEPT ![LoginReq] = FALSE]
    /\ resp' = NULL
    /\ session' = NULL
    /\ loading' = FALSE
    /\ UNCHANGED << storage, hdr, raced, screen, errors >>

\* One awaited write of the sign-in: AsyncStorage.setItem(key, value), then
\* on to the step `next`.
SignInWrite(at, key, value, next) ==
    /\ pc[LoginReq] = at
    /\ \E ok \in BOOLEAN :
         IF ok
         THEN /\ storage' = [storage EXCEPT ![key] = Some(value)]
              /\ raced' = RacedBy(key)
              /\ pc' = [pc EXCEPT ![LoginReq] = next]
              /\ UNCHANGED << hdr, caught, resp, errors, session, loading, screen >>
         ELSE SignInFailed
    /\ UNCHANGED << err, result, logoutPc, startVars, tokenVars, callVars >>

\* loginUser: await AsyncStorage.setItem("authToken", response.data.token)
loginUserStoreToken ==
    SignInWrite("storeToken", "authToken", resp[1].token, "storeUser")

\* loginUser: await AsyncStorage.setItem("user", JSON.stringify(response.data.user))
loginUserStoreUser ==
    SignInWrite("storeUser", "user", Stringify(resp[1].user), "setAuthToken")

\* The sign-in screen storing the header text instead of the token.
StoredTokenAsHeader(response) == Bearer(response.token)

\* response.token, the value handleSignIn hands to setAuthToken.
StoredToken(response) == response.token

\* handleSignIn: await setAuthToken(response.token)
signInSetAuthToken ==
    SignInWrite("setAuthToken", "authToken", StoredToken(resp[1]), "setStoredUser")

\* handleSignIn: await setStoredUser(response.user), then the welcome alert,
\* router.replace("/(tabs)") and the finally block.
signInSetStoredUser ==
    /\ pc[LoginReq] = "setStoredUser"
    /\ \E ok \in BOOLEAN :
         IF ok
         THEN /\ storage' = [storage EXCEPT !.user = Some(Stringify(resp[1].user))]
              /\ raced' = RacedBy("user")
              /\ pc' = [pc EXCEPT ![LoginReq] = "idle"]
              /\ caught' = [caught EXCEPT ![LoginReq] = FALSE]
              /\ resp' = NULL
              /\ loading' = FALSE
              /\ screen' = "tabs"
              /\ UNCHANGED << hdr, session, errors >>
         ELSE SignInFailed
    /\ UNCHANGED << err, result, logoutPc, startVars, tokenVars, callVars >>

(***************************************************************************)
(* Logout: the confirmed alert runs logout() and then clearAuthData().     *)
(***************************************************************************)
\* The user confirms the logout alert; logout() starts.
ConfirmLogout ==
    /\ screen = "tabs"
    /\ logoutPc = "idle"
    /\ logoutPc' = "removeToken"
    /\ session' = NULL
    /\ UNCHANGED << storage, reqVars, signInVars, screen, startVars, tokenVars, callVars >>

\* logout(): await AsyncStorage.removeItem("authToken"); an error is logged
\* and swallowed, and logout() returns.
LogoutRemoveToken ==
    /\ logoutPc = "removeToken"
    /\ \E ok \in BOOLEAN :
         IF ok
         THEN /\ storage' = [storage EXCEPT !.authToken = NULL]
              /\ logoutPc' = "removeUser"
         ELSE /\ logoutPc' = "clearAuthData"
              /\ UNCHANGED storage
    /\ UNCHANGED << reqVars, signInVars, session, screen, startVars, tokenVars, callVars >>

\* logout(): await AsyncStorage.removeItem("user")
LogoutRemoveUser ==
    /\ logoutPc = "removeUser"
    /\ \E ok \in BOOLEAN :
         storage' = IF ok THEN [storage EXCEPT !.user = NULL] ELSE storage
    /\ logoutPc' = "clearAuthData"
    /\ UNCHANGED << reqVars, signInVars, session, screen, startVars, tokenVars, callVars >>

\* The logout handler navigating in a finally block, whether or not
\* clearAuthData threw.
ClearAuthDataThenLeave ==
    /\ logoutPc = "clearAuthData"
    /\ \E ok \in BOOLEAN :
         IF ok
         THEN /\ storage' = EmptyStorage
              /\ logoutPc' = "idle"
         ELSE /\ logoutPc' = "alert"
              /\ UNCHANGED storage
    /\ screen' = "auth"
    /\ UNCHANGED << reqVars, signInVars, session, startVars, tokenVars, callVars >>

\* clearAuthData(): AsyncStorage.multiRemove of both keys, then
\* router.replace("/(auth)/signin"); when it throws, the alert "Failed to
\* logout" shows and the screen stays.
ClearAuthData ==
    /\ logoutPc = "clearAuthData"
    /\ \E ok \in BOOLEAN :
         IF ok
         THEN /\ storage' = EmptyStorage
              /\ screen' = "auth"
              /\ logoutPc' = "idle"
         ELSE /\ logoutPc' = "alert"
              /\ UNCHANGED << storage, screen >>
    /\ UNCHANGED << reqVars, signInVars, session, startVars, tokenVars, callVars >>

\* The user dismisses the alert "Failed to logout".
DismissLogoutAlert ==
    /\ logoutPc = "alert"
    /\ logoutPc' = "idle"
    /\ UNCHANGED << storage, reqVars, signInVars, session, screen, startVars,
                    tokenVars, callVars >>

(***************************************************************************)
(* The session model.                                                      *)
(***************************************************************************)
Next ==
    \/ CheckAuth
    \/ HideSplash
    \/ Redirect
    \/ \E r \in ApiReq : CallApi(r)
    \/ handleSignIn(FilledForm)
    \/ \E r \in ApiReq : ResponseOk(r)
    \/ \E t \in Tokens : LoginOk(t)
    \/ \E r \in Req, e \in SessionErrors : ResponseError(r, e)
    \/ \E r \in Req : RemoveToken(r)
    \/ \E r \in Req : RemoveUser(r)
    \/ \E r \in Req : Reset(r)
    \/ loginUserStoreToken
    \/ loginUserStoreUser
    \/ signInSetAuthToken
    \/ signInSetStoredUser
    \/ ConfirmLogout
    \/ LogoutRemoveToken
    \/ LogoutRemoveUser
    \/ ClearAuthData
    \/ DismissLogoutAlert

Spec == Init /\ [][Next]_vars

(***************************************************************************)
(* The response pipeline on its own: one API call at a time, answered with *)
(* every failure of AxiosErrors.                                           *)
(***************************************************************************)
NextPipeline ==
    \/ CheckAuth
    \/ HideSplash
    \/ Redirect
    \/ CallApi(1)
    \/ ResponseOk(1)
    \/ \E e \in AxiosErrors : ResponseError(1, e)
    \/ RemoveToken(1)
    \/ RemoveUser(1)
    \/ Reset(1)

SpecPipeline == Init /\ [][NextPipeline]_vars

\* The awaited removeItem of the 401 branch settles, resolved or rejected,
\* and the handler then runs on.
SpecPipelineFair ==
    /\ SpecPipeline
    /\ \A r \in ApiReq : WF_vars(RemoveToken(r)) /\ WF_vars(RemoveUser(r))

(***************************************************************************)
(* The 401 handlers among themselves: API calls of a signed-in session,    *)
(* with no sign-in and no logout, so that the response pipeline is the     *)
(* only writer of the store.                                               *)
(***************************************************************************)
NextHandlers ==
    \/ CheckAuth
    \/ HideSplash
    \/ Redirect
    \/ \E r \in ApiReq : CallApi(r)
    \/ \E r \in ApiReq : ResponseOk(r)
    \/ \E r \in ApiReq, e \in SessionErrors : ResponseError(r, e)
    \/ \E r \in ApiReq : RemoveToken(r)
    \/ \E r \in ApiReq : RemoveUser(r)
    \/ \E r \in ApiReq : Reset(r)

SpecHandlers == Init /\ [][NextHandlers]_vars

(***************************************************************************)
(* The sign-in screen on its own: every form, the login call and its       *)
(* storage writes.                                                         *)
(***************************************************************************)
NextSignIn ==
    \/ CheckAuth
    \/ HideSplash
    \/ Redirect
    \/ \E form \in Forms : handleSignIn(form)
    \/ \E t \in Tokens : LoginOk(t)
    \/ \E e \in SessionErrors : ResponseError(LoginReq, e)
    \/ RemoveToken(LoginReq)
    \/ RemoveUser(LoginReq)
    \/ Reset(LoginReq)
    \/ loginUserStoreToken
    \/ loginUserStoreUser
    \/ signInSetAuthToken
    \/ signInSetStoredUser

SpecSignIn == Init /\ [][NextSignIn]_vars

(***************************************************************************)
(* The request pipeline on its own: one call at a time, with every config  *)
(* of Configs.                                                             *)
(***************************************************************************)
NextRequest ==
    \/ CheckAuth
    \/ HideSplash
    \/ Redirect
    \/ \E config \in Configs : ClientRequest(1, config)
    \/ ResponseOk(1)
    \/ Reset(1)

SpecRequest == Init /\ [][NextRequest]_vars

(***************************************************************************)
(* The domain functions: each invocation runs on call 1 of the client, one *)
(* client call after the other.                                            *)
(***************************************************************************)
HikeIds == 1..MaxHikes
HikeLists == UNION { [1..n -> HikeIds] : n \in 0..MaxHikes }

\* "/hikes" and `/hikes/${hikeId}/observations`
HikesPath == <<"/hikes">>
ObservationsPath(hikeId) == <<"/hikes/", hikeId, "/observations">>

\* A domain function is invoked: `given` are the paths it is to get, `todo`
\* those it has not got yet, `requests` counts the calls it made to the
\* client.
Invoke(fn, paths) ==
    /\ screen = "tabs"
    /\ call = NULL
    /\ pc[1] = "idle"
    /\ call' = Some([fn |-> fn, given |-> paths, todo |-> paths, requests |-> 0,
                     state |-> "running"])
    /\ UNCHANGED << storage, reqVars, signInVars, session, screen, logoutPc,
                    startVars, tokenVars, op, sinceClear, sent >>

\* getUserHikes(): one client.get("/hikes").
getUserHikes == Invoke("getUserHikes", <<HikesPath>>)

\* getObservationsByHike(hikeId): one client.get of the hike's observations.
getObservationsByHike(hikeId) ==
    Invoke("getObservationsByHike", <<ObservationsPath(hikeId)>>)

\* getUserObservations(userId, allHikes): for (const hikeId of allHikes)
\* await getObservationsByHike(hikeId).
getUserObservations(allHikes) ==
    Invoke("getUserObservations",
           [i \in 1..Len(allHikes) |-> ObservationsPath(allHikes[i])])

\* The running function calls the client for the next path.
DomainSend ==
    /\ call # NULL
    /\ call[1].state = "running"
    /\ call[1].todo # <<>>
    /\ pc[1] = "idle"
    /\ \E ok \in BOOLEAN : RequestInterceptor(1, ok)
    /\ call' = Some([call[1] EXCEPT !.requests = @ + 1])
    /\ UNCHANGED << storage, err, result, raced, signInVars, session, screen,
                    logoutPc, startVars, tokenVars, op, sinceClear, sent >>

\* The slot of call 1 as Reset leaves it.
SlotFreed ==
    /\ pc' = [pc EXCEPT ![1] = "idle"]
    /\ hdr' = [hdr EXCEPT ![1] = NULL]
    /\ err' = [err EXCEPT ![1] = NULL]
    /\ result' = [result EXCEPT ![1] = NULL]
    /\ caught' = [caught EXCEPT ![1] = FALSE]
    /\ raced' = [raced EXCEPT ![1] = FALSE]

\* The rejection caught and answered by calling the client again for the
\* same path.
DomainRetry ==
    /\ call # NULL
    /\ call[1].state = "running"
    /\ pc[1] = "rejected"
    /\ SlotFreed
    /\ UNCHANGED << storage, signInVars, session, screen, logoutPc, startVars,
                    tokenVars, callVars >>

\* The client call was fulfilled: the function goes on with the next path.
DomainResume ==
    /\ call # NULL
    /\ call[1].state = "running"
    /\ pc[1] = "fulfilled"
    /\ SlotFreed
    /\ call' = Some([call[1] EXCEPT !.todo = Tail(@)])
    /\ UNCHANGED << storage, signInVars, session, screen, logoutPc, startVars,
                    tokenVars, op, sinceClear, sent >>

\* No path is left: the function returns.
DomainReturn ==
    /\ call # NULL
    /\ call[1].state = "running"
    /\ call[1].todo = <<>>
    /\ pc[1] = "idle"
    /\ call' = Some([call[1] EXCEPT !.state = "fulfilled"])
    /\ UNCHANGED << storage, reqVars, signInVars, session, screen, logoutPc,
                    startVars, tokenVars, op, sinceClear, sent >>

\* The client call was rejected: catch (error) { throw error }.
DomainThrow ==
    /\ call # NULL
    /\ call[1].state = "running"
    /\ pc[1] = "rejected"
    /\ SlotFreed
    /\ call' = Some([call[1] EXCEPT !.state = "rejected"])
    /\ UNCHANGED << storage, signInVars, session, screen, logoutPc, startVars,
                    tokenVars, op, sinceClear, sent >>

\* The screen has taken the function's result or error.
DomainDone ==
    /\ call # NULL
    /\ call[1].state \in {"fulfilled", "rejected"}
    /\ call' = NULL
    /\ UNCHANGED << storage, reqVars, signInVars, session, screen, logoutPc,
                    startVars, tokenVars, op, sinceClear, sent >>

NextDomain ==
    \/ CheckAuth
    \/ HideSplash
    \/ Redirect
    \/ getUserHikes
    \/ \E h \in HikeIds : getObservationsByHike(h)
    \/ \E hs \in HikeLists : getUserObservations(hs)
    \/ DomainSend
    \/ ResponseOk(1)
    \/ \E e \in SessionErrors : ResponseError(1, e)
    \/ RemoveToken(1)
    \/ RemoveUser(1)
    \/ DomainResume
    \/ DomainReturn
    \/ DomainThrow
    \/ DomainDone

SpecDomain == Init /\ [][NextDomain]_vars

(***************************************************************************)
(* The profile screen: handleUpdateProfile calls updateProfile and, when   *)
(* it succeeded, loadProfile, which gets the profile for the screen.       *)
(***************************************************************************)
ProfilePath == <<"/auth/profile">>
NewEmails == {"alice@new.example", "bob@new.example"}

\* The user the backend answers an update with: the stored user with the
\* new email.
UpdatedUser(user, email) ==
    Obj([id |-> user.f.id, username |-> user.f.username, email |-> Str(email)])

\* handleUpdateProfile: await updateProfile(updateData), which puts the
\* form to "/auth/profile" through the client.
handleUpdateProfile(email) ==
    /\ screen = "tabs"
    /\ call = NULL
    /\ pc[1] = "idle"
    /\ storage.user # NULL
    /\ \E ok \in BOOLEAN : RequestInterceptor(1, ok)
    /\ call' = Some([fn |-> "updateProfile", given |-> <<ProfilePath>>,
                     todo |-> <<ProfilePath>>, requests |-> 1,
                     state |-> "running",
                     updated |-> UpdatedUser(ParseStored(storage.user[1]), email)])
    /\ UNCHANGED << storage, err, result, raced, signInVars, session, screen,
                    logoutPc, startVars, tokenVars, op, sinceClear, sent >>

\* The update was answered 200 with {message, user}: updateProfile returns
\* response.data, the screen alerts, leaves the edit mode and calls
\* loadProfile(), which runs getProfile().
ProfileUpdated ==
    /\ call # NULL
    /\ call[1].fn = "updateProfile"
    /\ call[1].state = "running"
    /\ pc[1] = "inflight"
    /\ pc' = [pc EXCEPT ![1] = "idle"]
    /\ hdr' = [hdr EXCEPT ![1] = NULL]
    /\ caught' = [caught EXCEPT ![1] = FALSE]
    /\ call' = Some([call[1] EXCEPT !.fn = "getProfile", !.requests = 0])
    /\ UNCHANGED << storage, err, result, raced, signInVars, session, screen,
                    logoutPc, startVars, tokenVars, op, sinceClear, sent >>

NextProfile ==
    \/ CheckAuth
    \/ HideSplash
    \/ Redirect
    \/ \E email \in NewEmails : handleUpdateProfile(email)
    \/ ProfileUpdated
    \/ DomainSend
    \/ ResponseOk(1)
    \/ \E e \in SessionErrors : ResponseError(1, e)
    \/ RemoveToken(1)
    \/ RemoveUser(1)
    \/ DomainResume
    \/ DomainReturn
    \/ DomainThrow
    \/ DomainDone

SpecProfile == Init /\ [][NextProfile]_vars

(***************************************************************************)
(* The observation form: validateForm and handleSubmit, and the domain     *)
(* functions createObservation and updateObservation, which build the      *)
(* multipart form and hand it to the client.  Texts are sequences of       *)
(* characters; the coordinate texts hold no decimal point and no exponent. *)
(***************************************************************************)
DigitChars == <<"0", "1", "2", "3", "4", "5", "6", "7", "8", "9">>
IsDigit(c) == \E d \in 1..10 : DigitChars[d] = c
DigitValue(c) == (CHOOSE d \in 1..10 : DigitChars[d] = c) - 1

NaN == [t |-> "NaN"]

\* The digits at the head of s read as a number, NaN when there are none.
RECURSIVE ParseDigits(_, _, _)
ParseDigits(s, acc, seen) ==
    IF s # <<>> /\ IsDigit(Head(s))
    THEN ParseDigits(Tail(s), 10 * acc + DigitValue(Head(s)), TRUE)
    ELSE IF seen THEN Num(acc) ELSE NaN

RECURSIVE SkipSpaces(_)
SkipSpaces(s) == IF s # <<>> /\ Head(s) = " " THEN SkipSpaces(Tail(s)) ELSE s

\* parseFloat(s): leading white space is skipped, then the longest prefix
\* that is a signed number is read; what follows it is ignored.
ParseFloat(s) ==
    LET t == SkipSpaces(s) IN
    IF t # <<>> /\ Head(t) \in {"-", "+"}
    THEN LET v == ParseDigits(Tail(t), 0, FALSE) IN
         IF v.t = "number" /\ Head(t) = "-" THEN Num(0 - v.n) ELSE v
    ELSE ParseDigits(t, 0, FALSE)

\* Number.prototype.toString() of an integer or NaN.
RECURSIVE DigitsOf(_)
DigitsOf(n) ==
    IF n < 10 THEN <<DigitChars[n + 1]>>
    ELSE DigitsOf(n \div 10) \o <<DigitChars[(n % 10) + 1]>>
NumberToString(v) ==
    IF v.t = "NaN" THEN <<"N", "a", "N">>
    ELSE IF v.n < 0 THEN <<"-">> \o DigitsOf(0 - v.n)
    ELSE DigitsOf(v.n)

\* What the form's inputs hold.
ObservationTexts == { <<>>, <<" ">>, <<"a">>, <<" ", "a", " ">> }
CoordinateTexts ==
    { <<>>, <<" ">>, <<"x">>, <<"-">>, <<"0">>, <<"9", "0">>, <<"9", "1">>,
      <<"-", "9", "0">>, <<"-", "9", "1">>, <<"1", "8", "0">>, <<"1", "8", "1">>,
      <<"-", "1", "8", "0">>, <<"-", "1", "8", "1">>, <<" ", "7">>, <<"7", "x">> }
PhotoFile ==
    [ t |-> "object", uri |-> "file:///photo.jpg", type |-> "image/jpeg",
      name |-> "photo.jpg" ]

\* The state of the form screen: the route's ids, the inputs, the photo
\* picked and whether the existing photo was removed.
ObservationForms ==
    [ hikeId : {NULL, Some(1)},
      observationId : {NULL, Some(7)},
      observation : ObservationTexts,
      comments : { <<>>, <<"c">> },
      latitude : CoordinateTexts,
      longitude : CoordinateTexts,
      photo : {JsNull, PhotoFile},
      shouldDeletePhoto : BOOLEAN ]

\* isNaN(parseFloat(text)) || parseFloat(text) < lo || parseFloat(text) > hi
OutOfRange(text, lo, hi) ==
    LET v == ParseFloat(text) IN
    v.t = "NaN" \/ v.n < lo \/ v.n > hi

\* validateForm accepting every coordinate that reads as a number.
validateFormAnyNumber(form) ==
    IF Trim(form.observation) = <<>>
    THEN Some("Observation is required")
    ELSE IF form.latitude # <<>> /\ ParseFloat(form.latitude).t = "NaN"
    THEN Some("Please enter a valid latitude (-90 to 90)")
    ELSE IF form.longitude # <<>> /\ ParseFloat(form.longitude).t = "NaN"
    THEN Some("Please enter a valid longitude (-180 to 180)")
    ELSE NULL

\* validateForm(): NULL when the form is valid, else the alert it shows.
validateForm(form) ==
    IF Trim(form.observation) = <<>>
    THEN Some("Observation is required")
    ELSE IF form.latitude # <<>> /\ OutOfRange(form.latitude, 0 - 90, 90)
    THEN Some("Please enter a valid latitude (-90 to 90)")
    ELSE IF form.longitude # <<>> /\ OutOfRange(form.longitude, 0 - 180, 180)
    THEN Some("Please enter a valid longitude (-180 to 180)")
    ELSE NULL

\* text.trim() ? parseFloat(text) : undefined
CoordinateOf(text) == IF Trim(text) # <<>> THEN ParseFloat(text) ELSE Undefined

\* comments.trim() || undefined
CommentsOf(text) == IF Trim(text) # <<>> THEN Some(Trim(text)) ELSE NULL

\* handleSubmit's updateData with its photo logic.
UpdateDataOf(form) ==
    [ observation |-> Some(Trim(form.observation)),
      comments |-> CommentsOf(form.comments),
      latitude |-> CoordinateOf(form.latitude),
      longitude |-> CoordinateOf(form.longitude),
      photo |-> IF form.shouldDeletePhoto /\ form.photo.t = "null" THEN JsNull
                ELSE IF form.photo.t = "object" THEN form.photo
                ELSE Undefined ]

\* handleSubmit's observationData: photo || undefined.
CreateDataOf(form) ==
    [ observation |-> Some(Trim(form.observation)),
      comments |-> CommentsOf(form.comments),
      latitude |-> CoordinateOf(form.latitude),
      longitude |-> CoordinateOf(form.longitude),
      photo |-> IF form.photo.t = "object" THEN form.photo ELSE Undefined ]

Part(name, value) == [name |-> name, value |-> value]
TextPart(name, text) == IF text = NULL THEN <<>> ELSE <<Part(name, text[1])>>
NumberPart(name, v) ==
    IF v.t = "undefined" THEN <<>> ELSE <<Part(name, NumberToString(v))>>
FilePart(photo) ==
    <<Part("photo", [uri |-> photo.uri, type |-> photo.type, name |-> photo.name])>>
TrueText == <<"t", "r", "u", "e">>

\* The requests the domain functions are called with.
ObservationRequests ==
    [ observation : {NULL, Some(<<"a">>)},
      comments : {NULL},
      latitude : {Undefined, Num(91)},
      longitude : {Undefined},
      photo : {Undefined, JsNull, PhotoFile} ]

\* createObservation's FormData: the observation, the optional fields that
\* are truthy, the coordinates that are defined, the photo when given.
CreateFormData(data) ==
    <<Part("observation", data.observation[1])>>
        \o TextPart("comments", IF data.comments = Some(<<>>) THEN NULL ELSE data.comments)
        \o NumberPart("latitude", data.latitude)
        \o NumberPart("longitude", data.longitude)
        \o (IF data.photo.t = "object" THEN FilePart(data.photo) ELSE <<>>)

\* updateObservation's FormData with `data.photo == null` for the delete
\* test: a request that does not mention the photo deletes it.
UpdateFormDataLoose(data) ==
    TextPart("observation", data.observation)
        \o TextPart("comments", data.comments)
        \o NumberPart("latitude", data.latitude)
        \o NumberPart("longitude", data.longitude)
        \o (IF data.photo.t \in {"null", "undefined"}
            THEN <<Part("deletePhoto", TrueText)>>
            ELSE FilePart(data.photo))

\* updateObservation's FormData: the fields that are not undefined; for
\* the photo, deletePhoto=true when it is null, the file when it is given.
UpdateFormData(data) ==
    TextPart("observation", data.observation)
        \o TextPart("comments", data.comments)
        \o NumberPart("latitude", data.latitude)
        \o NumberPart("longitude", data.longitude)
        \o (IF data.photo.t = "undefined" THEN <<>>
            ELSE IF data.photo.t = "null" THEN <<Part("deletePhoto", TrueText)>>
            ELSE FilePart(data.photo))

\* The config of client.post / client.put with the multipart form.
MultipartConfig(method, url, formData) ==
    [ method |-> method, url |-> url, data |-> Some(formData), params |-> NULL,
      headers |-> [ContentType |-> "multipart/form-data", Authorization |-> NULL] ]

\* A domain function puts its form to the client on slot 1; form is the
\* form screen's state when handleSubmit made the call.
ObservationRequest(fn, config, data, form) ==
    /\ \E ok \in BOOLEAN :
         /\ RequestInterceptor(1, ok)
         /\ sent' = Some([before |-> config, after |-> InterceptedConfig(config, ok)])
    /\ call' = Some([fn |-> fn, given |-> Some(data), form |-> form, alert |-> NULL,
                     loading |-> form # NULL])

\* The form screen or a domain function can start.
ObservationIdle ==
    /\ screen = "tabs"
    /\ call = NULL
    /\ pc[1] = "idle"

ObservationFrame ==
    UNCHANGED << storage, err, result, raced, signInVars, session, screen,
                 logoutPc, startVars, tokenVars, op, sinceClear >>

\* createObservation(hikeId, data)
createObservation(hikeId, data) ==
    /\ ObservationIdle
    /\ ObservationRequest("createObservation",
                          MultipartConfig("post", <<"/hikes/", hikeId, "/observations">>,
                                          CreateFormData(data)),
                          data, NULL)
    /\ ObservationFrame

\* updateObservation(observationId, data)
updateObservation(observationId, data) ==
    /\ ObservationIdle
    /\ ObservationRequest("updateObservation",
                          MultipartConfig("put", <<"/hikes/observations/", observationId>>,
                                          UpdateFormData(data)),
                          data, NULL)
    /\ ObservationFrame

\* The form screen shows an alert and sends nothing.
SubmitAlert(form, text) ==
    /\ call' = Some([fn |-> "none", given |-> NULL, form |-> Some(form),
                     alert |-> Some(text), loading |-> FALSE])
    /\ UNCHANGED << pc, hdr, caught, sent >>

\* handleSubmit: validate, then update the observation in edit mode and
\* create one otherwise.
handleSubmit(form) ==
    /\ ObservationIdle
    /\ IF validateForm(form) # NULL
       THEN SubmitAlert(form, validateForm(form)[1])
       ELSE IF form.hikeId = NULL /\ form.observationId = NULL
       THEN SubmitAlert(form, "Hike ID is required")
       ELSE IF form.observationId # NULL
       THEN ObservationRequest("updateObservation",
                MultipartConfig("put", <<"/hikes/observations/", form.observationId[1]>>,
                                UpdateFormData(UpdateDataOf(form))),
                UpdateDataOf(form), Some(form))
       ELSE ObservationRequest("createObservation",
                MultipartConfig("post", <<"/hikes/", form.hikeId[1], "/observations">>,
                                CreateFormData(CreateDataOf(form))),
                CreateDataOf(form), Some(form))
    /\ ObservationFrame

NextObservation ==
    \/ CheckAuth
    \/ HideSplash
    \/ Redirect
    \/ ObservationIdle /\ \E form \in ObservationForms : handleSubmit(form)
    \/ ObservationIdle /\ \E data \in ObservationRequests : updateObservation(7, data)
    \/ ObservationIdle /\ \E data \in ObservationRequests :
           data.observation # NULL /\ data.photo.t # "null" /\ createObservation(1, data)

SpecObservation == Init /\ [][NextObservation]_vars

(***************************************************************************)
(* The expiry check on its own: isTokenExpired applied to every string of  *)
(* up to MaxLen characters at every clock reading.                         *)
(***************************************************************************)
TokenAlphabet ==
    { Dot, ChunkSig, ChunkExp20, ChunkEmptyObj, ChunkExpText, ChunkUrlOnly }

TokenStrings == UNION { [1..n -> TokenAlphabet] : n \in 0..MaxLen }

InitToken ==
    /\ InitApp
    /\ storage = EmptyStorage
    /\ nowMs \in Times
    /\ tok \in TokenStrings
    /\ expired = NULL
    /\ raised = FALSE

\* A caller asks isTokenExpired(tok).
CheckToken ==
    /\ expired = NULL
    /\ ~raised
    /\ LET done == isTokenExpiredCall(tok, nowMs) IN
         /\ raised' = (done.type = "throw")
         /\ expired' = IF done.type = "throw" THEN NULL ELSE Some(done.value)
    /\ UNCHANGED << storage, reqVars, signInVars, session, screen, logoutPc,
                    startVars, tok, callVars >>

SpecToken == InitToken /\ [][CheckToken]_vars

(***************************************************************************)
(* The session store on its own: its functions called in any order, each   *)
(* call with or without a failure of the persistence layer.                *)
(***************************************************************************)
\* getStoredUser(): the parsed stored user, or null when nothing is stored
\* or the read fails.
getStoredUser(ok) ==
    IF ok /\ storage.user # NULL THEN Some(ParseStored(storage.user[1])) ELSE NULL

\* A store function has run: the store it leaves, whether the persistence
\* layer failed, whether the error reached the caller, and what a read
\* returned.
StoreCalled(name, store, failed, threw, value) ==
    /\ storage' = store
    /\ op' = Some([name |-> name, failed |-> failed, threw |-> threw, value |-> value])

StoreFrame ==
    UNCHANGED << reqVars, signInVars, session, screen, logoutPc, startVars,
                 tokenVars, sent, call >>

\* A caller reads the token: getAuthToken().
CallGetAuthToken ==
    /\ \E ok \in BOOLEAN :
         StoreCalled("getAuthToken", storage, ~ok, FALSE, getAuthToken(ok))
    /\ UNCHANGED sinceClear
    /\ StoreFrame

\* isAuthenticated that also asks whether the token has expired.
isAuthenticatedUnexpired(ok) ==
    LET token == getAuthToken(ok) IN
    TokenTruthy(token) /\ ~isTokenExpired(token[1], nowMs)

\* isAuthenticated(): !!token for the token getAuthToken() returns.
isAuthenticated(ok) == TokenTruthy(getAuthToken(ok))

\* A caller asks isAuthenticated().
CallIsAuthenticated ==
    /\ \E ok \in BOOLEAN :
         StoreCalled("isAuthenticated", storage, ~ok, FALSE, Some(isAuthenticated(ok)))
    /\ UNCHANGED sinceClear
    /\ StoreFrame

\* A caller reads the user: getStoredUser().
CallGetStoredUser ==
    /\ \E ok \in BOOLEAN :
         StoreCalled("getStoredUser", storage, ~ok, FALSE, getStoredUser(ok))
    /\ UNCHANGED sinceClear
    /\ StoreFrame

\* setAuthToken(token): setItem, and the error rethrown when it fails.
setAuthToken(token) ==
    /\ \E ok \in BOOLEAN :
         StoreCalled("setAuthToken",
                     IF ok THEN [storage EXCEPT !.authToken = Some(token)] ELSE storage,
                     ~ok, ~ok, NULL)
    /\ sinceClear' = "none"
    /\ StoreFrame

\* setStoredUser that logs a failed write and returns normally.
setStoredUserSwallowing(user) ==
    /\ \E ok \in BOOLEAN :
         StoreCalled("setStoredUser",
                     IF ok THEN [storage EXCEPT !.user = Some(Stringify(user))] ELSE storage,
                     ~ok, FALSE, NULL)
    /\ sinceClear' = "none"
    /\ StoreFrame

\* setStoredUser(user): setItem of JSON.stringify(user), the error rethrown.
setStoredUser(user) ==
    /\ \E ok \in BOOLEAN :
         StoreCalled("setStoredUser",
                     IF ok THEN [storage EXCEPT !.user = Some(Stringify(user))] ELSE storage,
                     ~ok, ~ok, NULL)
    /\ sinceClear' = "none"
    /\ StoreFrame

\* removeAuthToken(): removeItem, the error rethrown.
removeAuthToken ==
    /\ \E ok \in BOOLEAN :
         StoreCalled("removeAuthToken",
                     IF ok THEN [storage EXCEPT !.authToken = NULL] ELSE storage,
                     ~ok, ~ok, NULL)
    /\ UNCHANGED sinceClear
    /\ StoreFrame

\* removeStoredUser(): removeItem, the error rethrown.
removeStoredUser ==
    /\ \E ok \in BOOLEAN :
         StoreCalled("removeStoredUser",
                     IF ok THEN [storage EXCEPT !.user = NULL] ELSE storage,
                     ~ok, ~ok, NULL)
    /\ UNCHANGED sinceClear
    /\ StoreFrame

\* What a clearAuthData call makes of sinceClear.
ClearedBy(ok) ==
    IF ok \/ sinceClear = "done" THEN "done" ELSE "failed"

\* clearAuthData removing the token only.
clearAuthDataTokenOnly ==
    /\ \E ok \in BOOLEAN :
         /\ StoreCalled("clearAuthData",
                        IF ok THEN [storage EXCEPT !.authToken = NULL] ELSE storage,
                        ~ok, ~ok, NULL)
         /\ sinceClear' = ClearedBy(ok)
    /\ StoreFrame

\* clearAuthData(): multiRemove of both keys, the error rethrown.
clearAuthData ==
    /\ \E ok \in BOOLEAN :
         /\ StoreCalled("clearAuthData", IF ok THEN EmptyStorage ELSE storage,
                        ~ok, ~ok, NULL)
         /\ sinceClear' = ClearedBy(ok)
    /\ StoreFrame

\* The strings setAuthToken is called with: the backend's JWTs and a string
\* that is no JWT.
MalformedToken == <<ChunkSig>>
SettableTokens == Tokens \cup {MalformedToken}

NextStore ==
    \/ CallGetAuthToken
    \/ CallGetStoredUser
    \/ CallIsAuthenticated
    \/ \E t \in SettableTokens : setAuthToken(t)
    \/ \E t \in Tokens : setStoredUser(UserOf(t))
    \/ removeAuthToken
    \/ removeStoredUser
    \/ clearAuthData

SpecStore == Init /\ [][NextStore]_vars

(***************************************************************************)
(* Claims about the response pipeline's rejection value (SpecPipeline).    *)
(***************************************************************************)
\* The calls that have been rejected, each with the failure it was rejected
\* for and the value it was rejected with.
Rejected == { r \in Req : pc[r] = "rejected" }
FailureOf(r) == err[r][1]
RejectionOf(r) == result[r][1]

TimeoutText == "Request timeout. Please try again."
NetworkText == "Network error. Please check your connection."
FallbackText == "An unexpected error occurred"

\* The backend answered and its answer has a body.
BodyPresent(e) ==
    /\ e.response # NULL
    /\ e.response[1].data # Undefined
    /\ e.response[1].data # Str("")
\* The failure is the client-side timeout.
IsTimeout(e) == e.code = Some("ECONNABORTED")
\* No response was received.
NoResponse(e) == e.response = NULL

\* The rejection value the five rules give when rule (c) asks for "no
\* response received".
ByNoResponseRules(e) ==
    IF BodyPresent(e) THEN e.response[1].data
    ELSE IF IsTimeout(e) THEN ErrorBody(TimeoutText)
    ELSE IF NoResponse(e) THEN ErrorBody(NetworkText)
    ELSE IF e.message # "" THEN ErrorBody(e.message)
    ELSE ErrorBody(FallbackText)

\* C2 as stated: every rejected call is rejected with the value of the first
\* matching rule among (a) body present, (b) timeout, (c) no response
\* received, (d) has a message, (e) fallback.
C2_FirstRuleNoResponse ==
    \A r \in Rejected : RejectionOf(r) = ByNoResponseRules(FailureOf(r))

\* C2 as amended: every rejected call is rejected with exactly the value of
\* the first matching rule among (a) body present -> the body, (b) code
\* ECONNABORTED -> the timeout text, (c) message "Network Error" -> the
\* network text, (d) another non-empty message -> {error: message}, (e) no
\* message -> the fallback text.
C2_FirstRuleByMessage ==
    \A r \in Rejected :
        LET e == FailureOf(r)
            v == RejectionOf(r)
        IN  /\ BodyPresent(e) => v = e.response[1].data
            /\ (~BodyPresent(e) /\ IsTimeout(e)) => v = ErrorBody(TimeoutText)
            /\ (~BodyPresent(e) /\ ~IsTimeout(e) /\ e.message = "Network Error")
                  => v = ErrorBody(NetworkText)
            /\ (~BodyPresent(e) /\ ~IsTimeout(e)
                  /\ e.message \notin {"Network Error", ""})
                  => v = ErrorBody(e.message)
            /\ (~BodyPresent(e) /\ ~IsTimeout(e) /\ e.message = "")
                  => v = ErrorBody(FallbackText)

\* A failure with no response and a message other than "Network Error" was
\* rejected with that message, and one without a message with the fallback.
C2_Witness ==
    \E r \in Rejected :
        /\ NoResponse(FailureOf(r))
        /\ ~IsTimeout(FailureOf(r))
        /\ FailureOf(r).message = "Converting circular structure to JSON"
        /\ RejectionOf(r) = ErrorBody("Converting circular structure to JSON")

\* The normalized shape: an object with an `error` string or with an `errors`
\* list of {field, msg}.
IsFieldError(v) ==
    /\ HasField(v, "field") /\ v.f.field.t = "string"
    /\ HasField(v, "msg") /\ v.f.msg.t = "string"
NormalizedShape(v) ==
    \/ HasField(v, "error") /\ v.f.error.t = "string"
    \/ /\ HasField(v, "errors")
       /\ v.f.errors.t = "array"
       /\ \A i \in 1..Len(v.f.errors.a) : IsFieldError(v.f.errors.a[i])

\* C3 as stated: every rejection value has the normalized shape, whatever
\* the backend answered.
C3_AlwaysNormalized ==
    \A r \in Rejected : NormalizedShape(RejectionOf(r))

\* C3 as amended: a rejection value has the normalized shape whenever the
\* backend sent no body or a body of that shape; a body of another shape (a
\* text, an object without `error` and `errors`) reaches the caller as sent.
C3_NormalizedUnlessForeignBody ==
    \A r \in Rejected :
        LET e == FailureOf(r) IN
        IF BodyPresent(e) /\ ~NormalizedShape(e.response[1].data)
        THEN RejectionOf(r) = e.response[1].data
        ELSE NormalizedShape(RejectionOf(r))

\* An answer with an empty body was rejected with {error: <message>}.
C3_Witness ==
    \E r \in Rejected :
        /\ FailureOf(r) = HttpError(500, Str(""))
        /\ RejectionOf(r) = ErrorBody("Request failed with status code 500")

\* C4: a structured error body of the backend is the rejection value,
\* unchanged.
C4_BodyPassedThrough ==
    \A r \in Rejected :
        LET e == FailureOf(r) IN
        (e.response # NULL /\ e.response[1].data \in {ValidationBody, ErrorBody("Invalid credentials")})
            => RejectionOf(r) = e.response[1].data

\* The body {errors: [{field: "email", msg: "invalid"}]} with status 400 was
\* rejected as it came.
C4_Witness ==
    \E r \in Rejected :
        /\ FailureOf(r) = HttpError(400, ValidationBody)
        /\ RejectionOf(r) = Obj([errors |-> Arr(<<Obj([field |-> Str("email"), msg |-> Str("invalid")])>>)])

\* C5: a client-side timeout without a response body is rejected with
\* exactly {error: "Request timeout. Please try again."}.
C5_TimeoutRejection ==
    \A r \in Rejected :
        (IsTimeout(FailureOf(r)) /\ ~BodyPresent(FailureOf(r)))
            => RejectionOf(r) = Obj([error |-> Str("Request timeout. Please try again.")])

\* A call that timed out was rejected.
C5_Witness ==
    \E r \in Rejected :
        /\ FailureOf(r) = TimeoutError
        /\ RejectionOf(r) = ErrorBody(TimeoutText)

\* C6: a failure with no response and the message "Network Error" is rejected
\* with exactly {error: "Network error. Please check your connection."}.
C6_NetworkRejection ==
    \A r \in Rejected :
        (NoResponse(FailureOf(r)) /\ FailureOf(r).message = "Network Error")
            => RejectionOf(r) = Obj([error |-> Str("Network error. Please check your connection.")])

\* A call that found no connection was rejected.
C6_Witness ==
    \E r \in Rejected :
        /\ FailureOf(r) = NetworkError
        /\ RejectionOf(r) = ErrorBody(NetworkText)

(***************************************************************************)
(* Claims about the session (Spec).                                        *)
(***************************************************************************)
\* This step delivers the rejection of call r, which was answered 401.
Delivers401(r) ==
    /\ pc[r] # "rejected"
    /\ pc'[r] = "rejected"
    /\ IsUnauthorized(err'[r][1])

Sends(r) == pc[r] = "idle" /\ pc'[r] = "inflight"

\* C7 as stated: the pipeline attaches Authorization: Bearer <stored token>
\* if and only if a token is stored.
C7_HeaderIffStored ==
    [][\A r \in Req :
          Sends(r) =>
              hdr'[r] = IF storage.authToken # NULL
                        THEN Some(<<"Bearer ">> \o storage.authToken[1])
                        ELSE NULL]_vars

\* C7 as amended: the pipeline attaches Authorization: Bearer <stored token>
\* if and only if a token is stored and reading it from the store succeeds;
\* with no stored token, or when the read fails, it adds no header.
C7_HeaderIffStoredAndRead ==
    [][\A r \in Req :
          Sends(r) =>
              hdr'[r] = IF storage.authToken # NULL /\ ~caught'[r]
                        THEN Some(<<"Bearer ">> \o storage.authToken[1])
                        ELSE NULL]_vars

\* A call is in flight with the Bearer header of the stored token, and
\* another went out without a header after its token read failed.
C7_Witness ==
    /\ storage.authToken # NULL
    /\ \E r \in Req :
          /\ pc[r] = "inflight"
          /\ ~caught[r]
          /\ hdr[r] = Some(<<"Bearer ">> \o storage.authToken[1])
    /\ \E r \in Req :
          /\ pc[r] = "inflight"
          /\ caught[r]
          /\ hdr[r] = NULL

\* A sign-in has completed with session[1] as its token, and neither a
\* logout nor the handling of a 401 has come since its response.
SignedIn == session # NULL /\ pc[LoginReq] = "idle"

C9_StartupClearsExpired ==
    [][(/\ screen = "index"
        /\ isAuth = NULL
        /\ isAuth' # NULL
        /\ storage.authToken # NULL
        /\ isTokenExpired(storage.authToken[1], nowMs))
          => (isAuth' = Some(FALSE) /\ storage' = EmptyStorage)]_vars

(***************************************************************************)
(* Claims about the expiry check (SpecToken).                              *)
(***************************************************************************)
\* The places of the dots of a string, and what lies between its first two.
DotsOf(s) == { i \in 1..Len(s) : s[i] = Dot }
ThreeSegments(s) == Cardinality(DotsOf(s)) = 2
SecondSegment(s) ==
    LET first == CHOOSE i \in DotsOf(s) : \A j \in DotsOf(s) : i <= j
        last == CHOOSE i \in DotsOf(s) : \A j \in DotsOf(s) : j <= i
    IN  SubSeq(s, first + 1, last - 1)

\* The second segment of a three-segment string does not decode to JSON.
SecondSegmentNotJson(s) ==
    /\ ThreeSegments(s)
    /\ \/ Atob(SecondSegment(s)) = NULL
       \/ JSONParse(Atob(SecondSegment(s))[1]) = NULL

\* The second segment decodes to JSON that has no exp claim.
DecodesWithoutExp(s) ==
    /\ ThreeSegments(s)
    /\ Atob(SecondSegment(s)) # NULL
    /\ JSONParse(Atob(SecondSegment(s))[1]) # NULL
    /\ ~HasField(JSONParse(Atob(SecondSegment(s))[1])[1], "exp")

\* C10: isTokenExpired returns true for the empty string, for a string that
\* has not exactly three dot-separated segments, for a second segment that
\* does not decode to JSON, and for decoded JSON without an exp claim.
C10_MalformedIsExpired ==
    (/\ expired # NULL
     /\ \/ tok = <<>>
        \/ ~ThreeSegments(tok)
        \/ SecondSegmentNotJson(tok)
        \/ DecodesWithoutExp(tok))
        => expired = Some(TRUE)

\* isTokenExpired answered true for a three-segment string whose payload is
\* the JSON object {}.
C10_Witness ==
    /\ expired = Some(TRUE)
    /\ Len(tok) = 5
    /\ DecodesWithoutExp(tok)
    /\ SecondSegment(tok) = <<ChunkEmptyObj>>

\* The exp claim of a three-segment string whose second segment decodes to
\* JSON, and the clock reading in epoch seconds times 1000.
DecodedExp(s) == JSONParse(Atob(SecondSegment(s))[1])[1].f.exp
Decodes(s) ==
    /\ ThreeSegments(s)
    /\ Atob(SecondSegment(s)) # NULL
    /\ JSONParse(Atob(SecondSegment(s))[1]) # NULL

\* C11: isTokenExpired returns false only when the decoded exp is a number
\* strictly greater than the current epoch seconds; for an exp equal to the
\* current time, smaller, or not a number it returns true.
C11_FalseOnlyStrictlyLater ==
    expired = Some(FALSE)
        => /\ Decodes(tok)
           /\ ~DecodesWithoutExp(tok)
           /\ DecodedExp(tok).t = "number"
           /\ DecodedExp(tok).n * 1000 > nowMs

\* C12: isTokenExpired is total: for every string it returns true or false
\* and never raises, whichever decoding step fails.
C12_Total ==
    /\ ~raised
    /\ expired \in {NULL, Some(TRUE), Some(FALSE)}

\* isTokenExpired returned true for a three-segment string whose second
\* segment makes atob throw.
C12_Witness ==
    /\ expired = Some(TRUE)
    /\ ~raised
    /\ ThreeSegments(tok)
    /\ Atob(SecondSegment(tok)) = NULL

(***************************************************************************)
(* Claims about the session store's functions (SpecStore).                 *)
(***************************************************************************)
StoreReads == {"getAuthToken", "getStoredUser"}
StoreWrites ==
    {"setAuthToken", "setStoredUser", "removeAuthToken", "removeStoredUser",
     "clearAuthData"}

\* The last store call was a read that returned something.
ReadReturnedValue == op # NULL /\ op[1].name \in StoreReads /\ op[1].value # NULL

\* C13 as stated: once clearAuthData has been called after the sets, in
\* whatever order and number they came, the store is empty and both reads
\* return null; no clearAuthData call fails.
C13_EmptyAfterAnyClear ==
    /\ sinceClear # "none" => (storage = EmptyStorage /\ ~ReadReturnedValue)
    /\ (op # NULL /\ op[1].name = "clearAuthData") => ~op[1].threw

\* C13 as amended: once one of the clearAuthData calls that follow the sets
\* has completed without a storage error, the store is empty and both reads
\* return null, however many clearAuthData calls come and whether the later
\* ones fail; clearAuthData on an empty store leaves it empty.
C13_EmptyAfterCompletedClear ==
    /\ [](sinceClear = "done" => (storage = EmptyStorage /\ ~ReadReturnedValue))
    /\ [][(storage = EmptyStorage /\ op' # NULL /\ op'[1].name = "clearAuthData")
             => storage' = EmptyStorage]_vars

\* After sets and a completed clearAuthData the user read returned null.
C13_Witness ==
    /\ sinceClear = "done"
    /\ op = Some([name |-> "getStoredUser", failed |-> FALSE, threw |-> FALSE,
                  value |-> NULL])
    /\ storage = EmptyStorage

\* C20: a read of the session store never raises and returns null when the
\* persistence layer fails; a write raises to its caller exactly when the
\* persistence layer fails, and a failed write is not tried again: a failed
\* set or remove of one key leaves the store as it was.
C20_ReadsAbsentWritesRaise ==
    /\ [](op # NULL =>
            /\ op[1].name \in StoreReads
                  => (~op[1].threw /\ (op[1].failed => op[1].value = NULL))
            /\ op[1].name \in StoreWrites => (op[1].threw <=> op[1].failed))
    /\ [][(op' # NULL /\ op'[1].name \in StoreWrites \ {"clearAuthData"}
                /\ op'[1].failed)
             => storage' = storage]_vars

\* A token read answered null on a persistence error although a token is
\* stored.
C20_Witness ==
    /\ storage.authToken # NULL
    /\ op = Some([name |-> "getAuthToken", failed |-> TRUE, threw |-> FALSE,
                  value |-> NULL])

(***************************************************************************)
(* Claims about concurrent 401 handlers (SpecHandlers).                    *)
(***************************************************************************)
\* The calls whose 401 has been handled to the end, and the calls whose
\* handler is between its steps.
Handled401 ==
    { r \in ApiReq : pc[r] = "rejected" /\ err[r][1].response # NULL
                        /\ err[r][1].response[1].status = 401 }
Handling401 == { r \in ApiReq : pc[r] \in {"removeToken", "removeUser"} }

StatusOf(e) == IF e.response = NULL THEN 0 ELSE e.response[1].status

\* C15: a failure whose status is not 401, a timeout and a network failure
\* included, is rejected with the stored token and user unchanged, and the
\* store changes only in a step of the handling of a 401.
C15_OnlyUnauthorizedWrites ==
    /\ [][\A r \in Req :
             (pc[r] = "inflight" /\ err'[r] # NULL /\ StatusOf(err'[r][1]) # 401)
                 => (storage' = storage /\ pc'[r] = "rejected")]_vars
    /\ [][storage' # storage
             => \E r \in Req : /\ pc[r] \in {"removeToken", "removeUser"}
                                /\ StatusOf(err[r][1]) = 401]_vars

\* Calls were rejected for a status 500 with the session still stored.
C15_Witness ==
    /\ storage = SessionOf(TokenB)
    /\ pc[1] = "rejected"
    /\ StatusOf(err[1][1]) = 500
    /\ result[1] = Some(Obj([message |-> Str("Internal Server Error")]))

\* C16: when reading the token fails in the request pipeline, the failure
\* is swallowed: the call is sent all the same, without an Authorization
\* header; no call is rejected before it is sent.
C16_ReadFailureSwallowed ==
    [][\A r \in Req :
          (pc[r] = "idle" /\ pc'[r] # "idle")
              => /\ pc'[r] = "inflight"
                 /\ caught'[r] => hdr'[r] = NULL]_vars

\* An API call is in flight without a header after its token read failed,
\* while a token is stored.
C16_Witness ==
    /\ storage.authToken = Some(TokenB)
    /\ \E r \in ApiReq : pc[r] = "inflight" /\ caught[r] /\ hdr[r] = NULL

\* C17: the request pipeline changes nothing in the outgoing request except
\* possibly the Authorization header: method, path, body, query and the
\* caller's Content-Type leave the pipeline as they entered it.
C17_RequestUnchanged ==
    sent # NULL =>
        /\ sent[1].after.method = sent[1].before.method
        /\ sent[1].after.url = sent[1].before.url
        /\ sent[1].after.data = sent[1].before.data
        /\ sent[1].after.params = sent[1].before.params
        /\ sent[1].after.headers.ContentType = sent[1].before.headers.ContentType

\* A multipart post left the pipeline with the Bearer header added and its
\* body and Content-Type as the caller set them.
C17_Witness ==
    /\ sent # NULL
    /\ sent[1].before.method = "post"
    /\ sent[1].before.headers.ContentType = "multipart/form-data"
    /\ sent[1].after.headers.ContentType = "multipart/form-data"
    /\ sent[1].after.data = Some("FormData")
    /\ sent[1].after.headers.Authorization = Some(<<"Bearer ">> \o TokenB)

(***************************************************************************)
(* Claims about the life of one request (SpecPipelineFair).                *)
(***************************************************************************)
\* The states of a call: pending (sent, or its failure being handled),
\* and settled one way or the other.
Pending(r) == pc[r] \in {"inflight", "removeToken", "removeUser"}
Settled(r) == pc[r] \in {"fulfilled", "rejected"}

\* C18: a request is pending and then settles exactly once, as fulfilled or
\* as rejected, and stays so until its caller lets go of it; it is never
\* sent again; a failure never ends as a fulfilled value, and every failure
\* being handled ends as a rejection.
C18_SettlesOnce ==
    /\ [][\A r \in ApiReq :
             /\ pc[r] = "fulfilled" => pc'[r] \in {"fulfilled", "idle"}
             /\ pc[r] = "rejected" => pc'[r] \in {"rejected", "idle"}
             /\ pc'[r] = "inflight" => pc[r] \in {"idle", "inflight"}
             /\ pc'[r] = "fulfilled" => (pc[r] \in {"inflight", "fulfilled"} /\ err'[r] = NULL)
             /\ (Pending(r) /\ err'[r] # NULL) => pc'[r] # "fulfilled"
             /\ (Pending(r) /\ ~Pending(r)') => Settled(r)']_vars
    /\ \A r \in ApiReq :
          (pc[r] \in {"removeToken", "removeUser"}) ~> (pc[r] = "rejected")

\* A call answered 401 has gone through its handling and is rejected.
C18_Witness ==
    /\ pc[1] = "rejected"
    /\ err[1] = Some(HttpError(401, Undefined))
    /\ result[1] = Some(ErrorBody("Request failed with status code 401"))

(***************************************************************************)
(* Claims about the domain functions (SpecDomain).                         *)
(***************************************************************************)
\* C19 as stated: a domain function sends at most one HTTP request per
\* invocation, whatever its arguments.
C19_AtMostOneRequest ==
    call # NULL => call[1].requests <= 1

\* C19 as amended: getUserHikes and getObservationsByHike send at most one
\* request per invocation; getUserObservations sends at most one request
\* per hike id it is given, none for a path it has already got, and no
\* function sends again once a request of the invocation has failed.
C19_OneRequestPerHike ==
    /\ [](call # NULL =>
            /\ call[1].fn # "getUserObservations" => call[1].requests <= 1
            /\ call[1].requests <= Len(call[1].given)
            /\ call[1].requests <= Len(call[1].given) - Len(call[1].todo) + 1
            /\ call[1].state = "rejected" => pc[1] = "idle")
    /\ [][(call # NULL /\ call' # NULL /\ call[1].state = "rejected")
             => call'[1] = call[1]]_vars

\* getUserObservations was given two hikes, sent two requests and returned.
C19_Witness ==
    /\ call # NULL
    /\ call[1].fn = "getUserObservations"
    /\ Len(call[1].given) = 2
    /\ call[1].requests = 2
    /\ call[1].state = "fulfilled"

(***************************************************************************)
(* Claims about the profile update (SpecProfile).                          *)
(***************************************************************************)
\* This step is the successful answer to a profile update.
UpdateSucceeds ==
    /\ call # NULL
    /\ call[1].fn = "updateProfile"
    /\ call' # NULL
    /\ call'[1].fn = "getProfile"

\* C21: a successful profile update refreshes the stored user, which is
\* then the user the backend answered with, and leaves the stored token
\* unchanged.
C21_UpdateRefreshesStoredUser ==
    [][UpdateSucceeds =>
          /\ storage'.user = Some([json |-> call[1].updated])
          /\ storage'.authToken = storage.authToken]_vars

(***************************************************************************)
(* Claims about the logout (Spec).                                         *)
(***************************************************************************)
\* C22: after a confirmed logout the app navigates to the sign-in screen
\* only with token and user both absent from the store; when clearing the
\* store fails, it does not navigate and shows the error alert.
C22_LogoutLeavesOnlyCleared ==
    /\ [][(screen = "tabs" /\ screen' # "tabs")
             => (storage' = EmptyStorage /\ screen' = "auth")]_vars
    /\ [][(logoutPc = "clearAuthData" /\ logoutPc' # "clearAuthData")
             => \/ screen' = "auth" /\ storage' = EmptyStorage /\ logoutPc' = "idle"
                \/ screen' = "tabs" /\ logoutPc' = "alert"]_vars

\* A logout whose clearAuthData failed left the tabs showing, the session
\* stored and the alert up.
C22_Witness ==
    /\ screen = "tabs"
    /\ logoutPc = "alert"
    /\ storage.authToken # NULL

WritingSession ==
    \/ pc[LoginReq] \in {"storeToken", "storeUser", "setAuthToken", "setStoredUser"}
    \/ \E r \in Req : pc[r] \in {"removeToken", "removeUser"}
    \/ logoutPc \in {"removeToken", "removeUser", "clearAuthData"}

\* C24: whenever no sign-in, logout or 401 clear is part-way through its
\* storage writes, the stored token and the stored user are both present
\* or both absent.
C24_TokenAndUserTogether ==
    ~WritingSession => (storage.authToken = NULL <=> storage.user = NULL)

(***************************************************************************)
(* A 401 for a request of an earlier session.                              *)
(***************************************************************************)
\* The 401 handler of call r runs one of its removals in this step.
Clears(r) ==
    /\ pc[r] \in {"removeToken", "removeUser"}
    /\ pc'[r] # pc[r]
    /\ storage' # storage

\* Call r was sent with the token of the session that is stored.
CarriesStoredSession(r) ==
    \E t \in Tokens :
        /\ hdr[r] = Some(Bearer(t))
        /\ storage.authToken # NULL => storage.authToken = Some(t)
        /\ storage.user # NULL => storage.user = Some(Stringify(UserOf(t)))

\* C25: the 401 handler of a request that was sent with a token removes a
\* stored token or user only when that token is the stored session's; the
\* 401 of a request sent with an earlier token leaves the session of a
\* later login alone.
C25_StaleUnauthorizedKeepsSession ==
    [][\A r \in ApiReq :
           (Clears(r) /\ hdr[r] # NULL) => CarriesStoredSession(r)]_vars

(***************************************************************************)
(* A session clear that fails.                                             *)
(***************************************************************************)
\* A removal of call r's 401 handler throws in this step.
ClearFails(r) ==
    /\ pc[r] \in {"removeToken", "removeUser"}
    /\ caught'[r]

\* C26: when a removal of the 401 session clear throws, the call is still
\* rejected, with the normalized value of the 401 response it was answered
\* with, and the storage error reaches nobody.
C26_ClearFailureStillRejects ==
    [][\A r \in ApiReq :
           ClearFails(r)
               => /\ pc'[r] = "rejected"
                  /\ err'[r] = err[r]
                  /\ IsUnauthorized(err[r][1])
                  /\ result'[r] = Some(Normalize(err[r][1]))]_vars

\* A 401 with a body was rejected with that body although the clear threw.
C26_Witness ==
    /\ pc[1] = "rejected"
    /\ caught[1]
    /\ err[1] = Some(HttpError(401, ErrorBody("Invalid credentials")))
    /\ result[1] = Some(ErrorBody("Invalid credentials"))

(***************************************************************************)
(* The startup check ends in a redirect.                                   *)
(***************************************************************************)
\* C27: once checkAuth has ended, the Index route renders its redirect or
\* has redirected; it does not stay on the loading view.
C27_CheckAuthEndsRedirecting ==
    checkAuthPc \in {"returned", "threw"} => (authChecked \/ screen # "index")

(***************************************************************************)
(* The sign-in screen's loading flag.                                      *)
(***************************************************************************)
\* A sign-in submission is being processed: the login call is out, is
\* being answered, or its session is being stored.
Processing ==
    pc[LoginReq] \in {"inflight", "removeToken", "removeUser", "storeToken",
                      "storeUser", "setAuthToken", "setStoredUser"}

\* A login request goes out in this step.
SendsLogin == pc[LoginReq] # "inflight" /\ pc'[LoginReq] = "inflight"

\* The form failed its validation in this step.
ValidationFails == errors' # errors /\ errors' # <<>>

\* C28: loading is true exactly while a sign-in submission is processed;
\* a login request goes out only when loading was false and no submission
\* was being processed, and sets it; a validation failure sends nothing
\* and leaves loading false.
C28_LoadingWhileProcessing ==
    /\ [](loading <=> Processing)
    /\ [][SendsLogin => (~loading /\ ~Processing /\ loading')]_vars
    /\ [][ValidationFails => (~loading' /\ pc' = pc)]_vars

\* A rejected sign-in has reset loading.
C28_Witness ==
    /\ screen = "auth"
    /\ pc[LoginReq] = "rejected"
    /\ ~loading

(***************************************************************************)
(* The observation form and the photo of an update.                        *)
(***************************************************************************)
\* The parts of the form that left the request pipeline under a name.
SentParts(name) ==
    SelectSeq(sent[1].after.data[1], LAMBDA p : p.name = name)

\* C29: updateObservation encodes the photo in three exclusive ways: null
\* sends deletePhoto=true and no photo part, a photo object sends the
\* photo part and no deletePhoto, undefined sends neither.
C29_PhotoEncodedThreeWays ==
    (call # NULL /\ call[1].fn = "updateObservation")
        => LET photo == call[1].given[1].photo IN
           /\ sent # NULL
           /\ photo.t = "null"
                 => /\ SentParts("deletePhoto") = <<Part("deletePhoto", TrueText)>>
                    /\ SentParts("photo") = <<>>
           /\ photo.t = "object"
                 => /\ SentParts("photo") = FilePart(PhotoFile)
                    /\ SentParts("deletePhoto") = <<>>
           /\ photo.t = "undefined"
                 => /\ SentParts("photo") = <<>>
                    /\ SentParts("deletePhoto") = <<>>

\* An update that does not mention the photo went out.
C29_Witness ==
    /\ call # NULL
    /\ call[1].fn = "updateObservation"
    /\ call[1].given[1].photo.t = "undefined"
    /\ pc[1] = "inflight"
    /\ SentParts("observation") # <<>>

\* The decimal texts of the integers lo..hi.
TextsOfRange(lo, hi) == { NumberToString(Num(n)) : n \in lo..hi }

\* The form screen's handleSubmit has run.
Submitted == call # NULL /\ call[1].form # NULL

\* C30: the form sends a request only with a non-blank observation text
\* and with coordinates in range: a latitude sent is a number of -90..90,
\* a longitude sent one of -180..180; a form that fails the validation
\* sends nothing.
C30_SubmitSendsOnlyValid ==
    Submitted
        => LET form == call[1].form[1] IN
           /\ (pc[1] # "idle") <=> (sent # NULL)
           /\ (call[1].alert # NULL) <=> (sent = NULL)
           /\ Trim(form.observation) = <<>> => sent = NULL
           /\ sent # NULL
                 => /\ Len(SentParts("observation")) = 1
                    /\ Trim(SentParts("observation")[1].value) # <<>>
                    /\ \A i \in 1..Len(SentParts("latitude")) :
                          SentParts("latitude")[i].value \in TextsOfRange(0 - 90, 90)
                    /\ \A i \in 1..Len(SentParts("longitude")) :
                          SentParts("longitude")[i].value \in TextsOfRange(0 - 180, 180)

\* A form with both coordinates on the edge of their ranges was sent.
C30_Witness ==
    /\ Submitted
    /\ pc[1] = "inflight"
    /\ SentParts("latitude") = <<Part("latitude", <<"-", "9", "0">>)>>
    /\ SentParts("longitude") = <<Part("longitude", <<"1", "8", "0">>)>>

====
